---- MODULE Spec2Model ----
(***************************************************************************)
(* Verification model of the trip-planner agent.                           *)
(*                                                                         *)
(*  - utils/plan.py: build_plan and replan (specification SpecPlan)        *)
(*  - agents/conversation_agent.py + agents/trip_planner_agent.py: one     *)
(*    user turn, slot filling and the tool run (specification Spec)        *)
(*  - ui/ui.py: the event listeners that start turns on the shared         *)
(*    context (specification SpecUI)                                       *)
(*                                                                         *)
(* Python values: None / a missing dict key is the string "None"; text     *)
(* slots are strings; duration_days and number_of_travelers are integers   *)
(* with 0 for a missing key (the code only ever tests their truthiness).   *)
(***************************************************************************)
EXTENDS Integers, Sequences, FiniteSets, TLC

VARIABLES
  context,     \* TripContext: the ctx of a call (SpecPlan), self.context of the UI (Spec)
  prev_keys,   \* replan._prev_keys
  plan,        \* the plan the caller of replan holds
  built,       \* history: the context replan last built a plan from
  last,        \* history: the last build_plan / replan call
  pc,          \* position of the turn inside trip_planner_node
  turn,        \* what the turn returned: response, missing_info, planning_stage
  results,     \* trip_planner_node's local results dict
  calls,       \* the tool calls safe_call / assembler.func made in this turn
  log,         \* labels printed as "[ERROR] tool <label> failed"
  flights_raw, \* what the flights tool returned in this turn
  prev_run,    \* history: the previous turn completed a run on this same context
  jobs,        \* SpecUI: the process_message call each event listener is running
  tasks,       \* SpecTool: the run_tool task of each name of the batch
  rp,          \* SpecTool: the run_parallel call
  ctx_thread,  \* SpecThreads: self.context['_thread_id']
  convs,       \* SpecThreads: history, the thread id each conversation's turns ran under
  store,       \* SpecThreads: the checkpointer's saved state per thread id
  raw,         \* SpecValidate: the argument of validate_flights
  validated,   \* SpecValidate: what validate_flights returned
  min_price,   \* SpecValidate: what extract_min_price returned
  peers,       \* SpecPeers: the ctx and plan each conversation holds
  cache,       \* SpecBudget: tools/budget.py _budget_cache
  budget       \* SpecBudget: the last trip_budget_estimator call

planVars == <<prev_keys, plan, built, last>>

turnVars == <<pc, turn, results, calls, log, flights_raw, prev_run>>

toolVars == <<tasks, rp>>

threadVars == <<ctx_thread, convs, store>>

valVars == <<raw, validated, min_price>>

restVars == <<threadVars, valVars, peers, cache, budget>>

vars == <<context, prev_keys, plan, built, last, pc, turn, results, calls, log,
          flights_raw, prev_run, jobs, tasks, rp, ctx_thread, convs, store,
          raw, validated, min_price, peers, cache, budget>>

None == "None"

\* bool(x) for a text slot: None and the empty string are falsy.
Truthy(v) == v # None /\ v # ""

\* bool(x) for a numeric slot.
TruthyNum(n) == n # 0

(***************************************************************************)
(* TripContext (classTypes/class_types.py): the keys the model reads.      *)
(***************************************************************************)
EmptyContext ==
  [user_city |-> None, departure_city |-> None, destination |-> None,
   start_date |-> None, committed_start_date |-> None,
   proposed_start_date |-> None, proposed_month |-> None,
   duration_days |-> 0, proposed_duration |-> 0,
   number_of_travelers |-> 0, flight_cost |-> 0]

Cities == {None, "Delhi"}
Destinations == {None, "Goa", "Pune"}
IsoDates == {"2025-12-10"}
Durations == {0, 4}
Travelers == {0, 2}

\* The contexts handed to build_plan / replan.
PlanContexts ==
  { [EmptyContext EXCEPT !.user_city = o, !.destination = d,
                         !.committed_start_date = t, !.duration_days = n,
                         !.number_of_travelers = k] :
      o \in Cities, d \in Destinations, t \in IsoDates \cup {None},
      n \in Durations, k \in Travelers }

(***************************************************************************)
(* utils/models.py PlanStep and utils/plan.py                              *)
(***************************************************************************)
StepStatuses == {"pending", "running", "done", "skipped", "error"}

PlanStep(id, step, requires) ==
  [id |-> id, step |-> step, requires |-> requires, status |-> "pending",
   error |-> None]

CORE_ORDER == <<"flights", "weather">>

ENRICH_ORDER == <<"activities", "nearby", "budget", "assemble">>

Reindex_keeps_ids(steps) == steps

\* for i, s in enumerate(steps, start=1): s.id = str(i)
Reindex(steps) == [i \in 1..Len(steps) |-> [steps[i] EXCEPT !.id = i]]

build_plan_no_duration_gate(ctx) ==
  LET have_origin == Truthy(ctx.user_city)
      have_dest == Truthy(ctx.destination)
      have_date == Truthy(ctx.committed_start_date)
      s1 == IF have_origin /\ have_dest /\ have_date
              THEN <<PlanStep(1, "flights", <<"user_city", "destination", "committed_start_date">>)>>
              ELSE <<>>
      s2 == IF have_dest /\ have_date
              THEN <<PlanStep(2, "weather", <<"destination", "committed_start_date">>)>>
              ELSE <<>>
      s3 == IF have_dest
              THEN <<PlanStep(3, "activities", <<"destination">>),
                     PlanStep(4, "nearby", <<"destination">>)>>
              ELSE <<>>
      s5 == IF have_dest
              THEN <<PlanStep(5, "budget", <<"destination">>)>>
              ELSE <<>>
      s6 == <<PlanStep(6, "assemble", <<>>)>>
  IN Reindex(s1 \o s2 \o s3 \o s5 \o s6)

build_plan_budget_first(ctx) ==
  LET have_origin == Truthy(ctx.user_city)
      have_dest == Truthy(ctx.destination)
      have_date == Truthy(ctx.committed_start_date)
      s1 == IF have_origin /\ have_dest /\ have_date
              THEN <<PlanStep(1, "flights", <<"user_city", "destination", "committed_start_date">>)>>
              ELSE <<>>
      s2 == IF have_dest /\ have_date
              THEN <<PlanStep(2, "weather", <<"destination", "committed_start_date">>)>>
              ELSE <<>>
      s3 == IF have_dest
              THEN <<PlanStep(3, "activities", <<"destination">>),
                     PlanStep(4, "nearby", <<"destination">>)>>
              ELSE <<>>
      s5 == IF have_dest /\ TruthyNum(ctx.duration_days)
              THEN <<PlanStep(5, "budget", <<"destination">>)>>
              ELSE <<>>
      s6 == <<PlanStep(6, "assemble", <<>>)>>
  IN Reindex(s1 \o s2 \o s5 \o s3 \o s6)

build_plan_assemble_gated(ctx) ==
  LET have_origin == Truthy(ctx.user_city)
      have_dest == Truthy(ctx.destination)
      have_date == Truthy(ctx.committed_start_date)
      s1 == IF have_origin /\ have_dest /\ have_date
              THEN <<PlanStep(1, "flights", <<"user_city", "destination", "committed_start_date">>)>>
              ELSE <<>>
      s2 == IF have_dest /\ have_date
              THEN <<PlanStep(2, "weather", <<"destination", "committed_start_date">>)>>
              ELSE <<>>
      s3 == IF have_dest
              THEN <<PlanStep(3, "activities", <<"destination">>),
                     PlanStep(4, "nearby", <<"destination">>)>>
              ELSE <<>>
      s5 == IF have_dest /\ TruthyNum(ctx.duration_days)
              THEN <<PlanStep(5, "budget", <<"destination">>)>>
              ELSE <<>>
      s6 == IF have_dest THEN <<PlanStep(6, "assemble", <<>>)>> ELSE <<>>
  IN Reindex(s1 \o s2 \o s3 \o s5 \o s6)

build_plan(ctx) ==
  LET have_origin == Truthy(ctx.user_city)
      have_dest == Truthy(ctx.destination)
      have_date == Truthy(ctx.committed_start_date)
      s1 == IF have_origin /\ have_dest /\ have_date
              THEN <<PlanStep(1, "flights", <<"user_city", "destination", "committed_start_date">>)>>
              ELSE <<>>
      s2 == IF have_dest /\ have_date
              THEN <<PlanStep(2, "weather", <<"destination", "committed_start_date">>)>>
              ELSE <<>>
      s3 == IF have_dest
              THEN <<PlanStep(3, "activities", <<"destination">>),
                     PlanStep(4, "nearby", <<"destination">>)>>
              ELSE <<>>
      s5 == IF have_dest /\ TruthyNum(ctx.duration_days)
              THEN <<PlanStep(5, "budget", <<"destination">>)>>
              ELSE <<>>
      s6 == <<PlanStep(6, "assemble", <<>>)>>
  IN Reindex(s1 \o s2 \o s3 \o s5 \o s6)

\* key_hash = (user_city, destination, committed_start_date)
key_hash(ctx) == <<ctx.user_city, ctx.destination, ctx.committed_start_date>>

\* The function attribute replan._prev_keys; <<>> stands for "not set" (None).
NoKeys == <<>>

replan_always_rebuilds(ctx, previous, pk) ==
  [plan |-> build_plan(ctx), prev_keys |-> key_hash(ctx), rebuilt |-> TRUE]

\* replan(ctx, previous) with the module-level state pk = replan._prev_keys:
\* the returned plan, the new _prev_keys, and whether build_plan ran.
replan(ctx, previous, pk) ==
  IF pk # key_hash(ctx)
    THEN [plan |-> build_plan(ctx), prev_keys |-> key_hash(ctx), rebuilt |-> TRUE]
    ELSE [plan |-> previous, prev_keys |-> pk, rebuilt |-> FALSE]

\* History records of the calls made (no call yet).
NoBuilt == [valid |-> FALSE, ctx |-> EmptyContext]

NoCall == [op |-> "none", ctx |-> EmptyContext, previous |-> <<>>, ret |-> <<>>,
           before |-> NoBuilt, rebuilt |-> FALSE]

(***************************************************************************)
(* One user turn: conversation_agent, the router, trip_planner_node.       *)
(*                                                                         *)
(* Text is modelled by a small set of utterances and date tokens; each     *)
(* regular expression of the code is the table of its matches on that set. *)
(* Tool output text, and the currency lines appended to it, is the opaque  *)
(* string "text".  All tokens are lower case, so .lower() leaves them.     *)
(***************************************************************************)
Utterances == {"plan a trip to goa", "2025-12-10", "yes", "use that", "maybe in dec"}

\* re.search(r'\b(20\d{2}-\d{2}-\d{2})\b', ui): the date found, or None.
IsoIn(ui) == IF ui = "2025-12-10" THEN "2025-12-10" ELSE None

\* re.search(r'\b(use that|that works|ok|okay|yes)\b', ui.lower())
ConfirmsDate(ui) == ui \in {"yes", "use that"}

\* The first month_map key found as a word in the utterance, or None.
MonthIn(ui) == IF ui = "maybe in dec" THEN "dec" ELSE None

\* re.fullmatch(r'(yes|ok|okay|sure|fine|that works|sounds good|go ahead|yep|yeah)\.?', ui)
AffirmsDuration(ui) == ui = "yes"

\* pref_map: the first keyword list with a keyword contained in the utterance.
PrefDuration(ui) == IF ui = "a weekend trip" THEN 3 ELSE 0

\* The year of datetime.utcnow() is 2026 throughout.
\* re.match(r"^\d{4}-\d{2}-\d{2}$", v)
IsIso(v) == v \in {"2025-12-10", "2026-12-01", "2026-12-15"}

\* datetime.strptime(v.lower(), "%B") succeeds on a full month name only.
IsFullMonthName(v) == v = "december"

\* f"{datetime.utcnow().year}-{dt.month:02d}-01"
FirstOfMonth(v) == IF v = "december" THEN "2026-12-01" ELSE v

\* len(str(v).split()) == 1
SingleWord(v) == v # "next friday"

\* re.match(r'^(jan|feb|mar|apr|may|jun|jul|aug|sep|sept|oct|nov|dec)', token)
MonthPrefixed(v) == v \in {"dec", "december"}

\* month_map.get(proposed_month): the two-digit month, or None.
month_map(m) == IF m \in {"dec", "december"} THEN "12" ELSE None

\* f"{year}-{mm}-15"
Fifteenth(mm) == IF mm = "12" THEN "2026-12-15" ELSE None

normalize_month(value) ==
  IF ~Truthy(value) THEN value
  ELSE IF IsIso(value) THEN value
  ELSE IF IsFullMonthName(value) THEN FirstOfMonth(value)
  ELSE value

\* The values the slot extractor may return under the key "date".
DateTokens == {"2025-12-10", "december", "dec", "next friday"}

(* trip_planner_node lines 59-94: the start date is captured, normalised,   *)
(* committed or moved to proposed_month.                                    *)
CaptureDate(ctx, ui) ==
  IF Truthy(ctx.start_date) THEN ctx
  ELSE IF Truthy(ctx.committed_start_date)
    THEN [ctx EXCEPT !.start_date = ctx.committed_start_date]
  ELSE IF IsoIn(ui) # None
    THEN [ctx EXCEPT !.start_date = IsoIn(ui)]
  ELSE IF Truthy(ctx.proposed_start_date) /\ ConfirmsDate(ui)
    THEN [ctx EXCEPT !.start_date = ctx.proposed_start_date]
  ELSE ctx

NormalizeDate(ctx) ==
  IF Truthy(ctx.start_date) /\ SingleWord(ctx.start_date)
    THEN [ctx EXCEPT !.start_date = normalize_month(ctx.start_date)]
    ELSE ctx

DepartureAlias(ctx) ==
  IF Truthy(ctx.departure_city) /\ ~Truthy(ctx.user_city)
    THEN [ctx EXCEPT !.user_city = ctx.departure_city]
    ELSE ctx

CommitDate(ctx) ==
  IF Truthy(ctx.start_date) /\ IsIso(ctx.start_date)
    THEN [ctx EXCEPT !.committed_start_date = ctx.start_date]
  ELSE IF Truthy(ctx.start_date) /\ MonthPrefixed(ctx.start_date)
    THEN [ctx EXCEPT !.proposed_month = ctx.start_date, !.start_date = None]
  ELSE ctx

RestoreDate(ctx) ==
  IF Truthy(ctx.committed_start_date) /\ ~Truthy(ctx.start_date)
    THEN [ctx EXCEPT !.start_date = ctx.committed_start_date]
    ELSE ctx

DateSlots(ctx, ui) ==
  RestoreDate(CommitDate(DepartureAlias(NormalizeDate(CaptureDate(ctx, ui)))))

\* missing = [f for f in required if not ctx.get(f)], as the first missing field.
required == <<"user_city", "destination", "start_date">>

Missing(ctx) == {i \in 1..Len(required) : ~Truthy(ctx[required[i]])}

FirstMissing(ctx) == required[CHOOSE i \in Missing(ctx) : \A j \in Missing(ctx) : i <= j]

\* Lines 134-157: the suggested duration.
SuggestDuration(ctx, ui) ==
  IF ctx.proposed_duration # 0 THEN ctx.proposed_duration
  ELSE IF PrefDuration(ui) # 0 THEN PrefDuration(ui)
  ELSE 5

Reply(ctx, response, missing_info, proceed) ==
  [context |-> ctx, response |-> response, missing_info |-> missing_info,
   proceed |-> proceed]

\* Line 161: if not ctx.get('number_of_travelers')
AskTravelers_never(ctx) == FALSE

AskTravelers(ctx) == ~TruthyNum(ctx.number_of_travelers)

(* trip_planner_node lines 15-162: everything before the first tool call.   *)
(* proceed is TRUE when the node goes on to the tools.                      *)
trip_planner_slots(ctx0, ui, stage) ==
  IF stage # "plan" THEN Reply(ctx0, "", FALSE, FALSE)
  ELSE
    LET ctx == DateSlots(ctx0, ui) IN
    IF Missing(ctx) # {} THEN
      LET proposed_month == IF Truthy(ctx.proposed_month) THEN ctx.proposed_month
                            ELSE MonthIn(ui)
          mm == IF proposed_month # None THEN month_map(proposed_month) ELSE None
      IN IF ~Truthy(ctx.start_date) /\ proposed_month # None /\ mm # None
           THEN Reply([ctx EXCEPT !.proposed_start_date = Fifteenth(mm)],
                      "propose_start_date", TRUE, FALSE)
           ELSE Reply(ctx, FirstMissing(ctx), TRUE, FALSE)
    ELSE IF ~TruthyNum(ctx.duration_days) /\
            ~(ctx.proposed_duration # 0 /\ AffirmsDuration(ui)) THEN
      Reply([ctx EXCEPT !.proposed_duration = SuggestDuration(ctx, ui)],
            "duration_days", TRUE, FALSE)
    ELSE
      LET ctx2 == IF ~TruthyNum(ctx.duration_days)
                    THEN [ctx EXCEPT !.duration_days = ctx.proposed_duration]
                    ELSE ctx
      IN IF AskTravelers(ctx2)
           THEN Reply(ctx2, "number_of_travelers", TRUE, FALSE)
           ELSE Reply(ctx2, "", FALSE, TRUE)

(***************************************************************************)
(* conversation_agent (agents/conversation_agent.py lines 456-646) and     *)
(* smart_router.  The language model's answers are inputs: the intent, the *)
(* extracted slots and the inferred destination.                           *)
(***************************************************************************)
MaxSlotsPerMessage == 1

Intents == {"unsafe", "explore", "chat", "plan"}

Filled(e) ==
  Cardinality({k \in {"origin", "destination", "date"} : e[k] # None}) +
  Cardinality({k \in {"duration", "travelers", "flight_cost"} : e[k] # 0})

\* _extract_planning_details: the JSON object of the language model's answer,
\* a partial map; None / 0 is a missing key.  The keys are whatever the
\* answer holds: the prompt's keys, or any other such as flight_cost.
Extractions ==
  { e \in [origin : {None, "Delhi"}, destination : {None, "Goa"},
           date : DateTokens \cup {None}, duration : {0, 4},
           travelers : {0, 2}, flight_cost : {0, 500}] :
      Filled(e) <= MaxSlotsPerMessage }

NoExtraction == [origin |-> None, destination |-> None, date |-> None,
                 duration |-> 0, travelers |-> 0, flight_cost |-> 0]

\* Lines 580-590: the extracted keys are written into the context.
ApplyExtracted(ctx, e) ==
  [ctx EXCEPT
     !.user_city = IF e.origin # None THEN e.origin ELSE @,
     !.start_date = IF e.date # None THEN e.date ELSE @,
     !.duration_days = IF e.duration # 0 THEN e.duration ELSE @,
     !.number_of_travelers = IF e.travelers # 0 THEN e.travelers ELSE @,
     !.destination = IF e.destination # None THEN e.destination ELSE @,
     !.flight_cost = IF e.flight_cost # 0 THEN e.flight_cost ELSE @]

\* The node's return value: response, context, planning_stage, ready_for_planning.
conversation_agent(ctx, ui, intent, e, inferred) ==
  IF intent = "unsafe" THEN
    [response |-> "refusal", context |-> ctx, planning_stage |-> "safety_refusal",
     ready_for_planning |-> FALSE]
  ELSE IF intent = "explore" THEN
    [response |-> "exploration", context |-> ctx, planning_stage |-> "explore",
     ready_for_planning |-> FALSE]
  ELSE IF intent = "chat" THEN
    [response |-> "chat", context |-> ctx, planning_stage |-> "chat",
     ready_for_planning |-> FALSE]
  ELSE
    LET c1 == ApplyExtracted(ctx, e)
        c2 == IF ~Truthy(c1.destination) /\ inferred # None
                THEN [c1 EXCEPT !.destination = inferred]
                ELSE c1
    IN IF ~Truthy(c2.destination)
         THEN [response |-> "which_destination", context |-> c2,
               planning_stage |-> "explore", ready_for_planning |-> FALSE]
         ELSE [response |-> "", context |-> c2, planning_stage |-> "plan",
               ready_for_planning |-> TRUE]

\* smart_router: 'trip_planner' or END.
smart_router(st) == st.ready_for_planning /\ Truthy(st.context.destination)

(***************************************************************************)
(* The tools.  A tool call returns a value or raises; safe_call turns a    *)
(* raise into "" and prints the label.                                     *)
(***************************************************************************)
MaxFailures == 1

MaxOffers == 2

\* str(e) of the exception a tool raises.
ExcTexts(label) == IF label = "flights" THEN {"timeout", "HTTP 500"} ELSE {"HTTP 500"}

Prices == {95, 120}

\* One element of the flights tool's list: a dict with or without the keys
\* 'price' (0: no such key) and 'error' (None: no such key).
Offer(price, error) == [price |-> price, error |-> error]

\* search_flights_from_city returns the parsed offers sorted by price
\* (results.sort(key=price)), or a one-element list holding an error dict.
SortedOffers ==
  {l \in UNION {[1..n -> {Offer(p, None) : p \in Prices}] : n \in 1..MaxOffers} :
     \A i \in 1..(Len(l) - 1) : l[i].price <= l[i + 1].price}

ErrorSingleton == <<Offer(0, "no route")>>

FlightLists == SortedOffers \cup {ErrorSingleton}

Returned(v) == [raised |-> FALSE, value |-> v, exc |-> None]

Raised(e) == [raised |-> TRUE, value |-> "", exc |-> e]

TextOutcomes(label) == {Returned("text")} \cup {Raised(e) : e \in ExcTexts(label)}

NoResults ==
  [activities |-> "", map |-> "", weather |-> "", flights |-> "", budget |-> ""]

NoFlights == [returned |-> FALSE, list |-> <<>>]

\* tools.flight.format_flights_for_display is imported by trip_planner_agent.py
\* but defined nowhere in the sources; it is taken to return display text.
format_flights_for_display(list) == "text"

\* What safe_call returns for a text tool.
safe_call(out) == IF out.raised THEN "" ELSE out.value

\* The print of safe_call's except branch, appended to the log.
Logged(lg, label, out) ==
  IF out.raised THEN Append(lg, [label |-> label, exc |-> out.exc]) ELSE lg

Called(cs, label, date) == Append(cs, [label |-> label, date |-> date])

Min(S) == CHOOSE x \in S : \A y \in S : x <= y

DeriveFlightCost_last_offer(ctx, list) ==
  IF Len(list) > 0 /\ list[Len(list)].price # 0
    THEN [ctx EXCEPT !.flight_cost = list[Len(list)].price]
    ELSE ctx

\* Lines 245-260: the cheapest price is derived only when the first element
\* has a price and no error.
DeriveFlightCost(ctx, list) ==
  IF Len(list) > 0 /\ list[1].price # 0 /\ list[1].error = None
    THEN LET prices == {list[i].price : i \in {j \in 1..Len(list) : list[j].price # 0}}
         IN IF prices # {} THEN [ctx EXCEPT !.flight_cost = Min(prices)] ELSE ctx
    ELSE ctx

(***************************************************************************)
(* utils/tooling.py: classify_error, run_tool, run_parallel.               *)
(* An exception is its text str(e); substring tests are tables over the    *)
(* texts below and their lower-case forms.                                 *)
(***************************************************************************)
ErrTexts ==
  {"Connection timeout", "invalid network id", "Invalid date", "ValueError: bad day",
   "quota exceeded"}

\* str.lower()
Lower(txt) ==
  CASE txt = "Connection timeout" -> "connection timeout"
    [] txt = "Invalid date" -> "invalid date"
    [] txt = "ValueError: bad day" -> "valueerror: bad day"
    [] OTHER -> txt

\* marker in txt
Contains(txt, marker) ==
  marker \in
    (CASE txt = "Connection timeout" -> {"timeout"}
       [] txt = "connection timeout" -> {"connection", "timeout"}
       [] txt = "invalid network id" -> {"invalid", "network"}
       [] txt = "invalid date" -> {"invalid"}
       [] txt = "valueerror: bad day" -> {"valueerror"}
       [] OTHER -> {})

classify_error_case_sensitive(e) ==
  IF Contains(e, "timeout") \/ Contains(e, "connection") \/ Contains(e, "network")
    THEN "network_error"
  ELSE IF Contains(e, "invalid") \/ Contains(e, "valueerror")
    THEN "invalid_input"
  ELSE "external_failure"

classify_error(e) ==
  LET txt == Lower(e)
  IN IF Contains(txt, "timeout") \/ Contains(txt, "connection") \/ Contains(txt, "network")
       THEN "network_error"
     ELSE IF Contains(txt, "invalid") \/ Contains(txt, "valueerror")
       THEN "invalid_input"
     ELSE "external_failure"

\* ToolResult(ok, data, error, meta); error is f"{class}: {e}", kept as the
\* pair of its two parts; meta is {} or {'tool': name, 'latency_ms': ms}.
ToolResult(ok, data, error, meta) == [ok |-> ok, data |-> data, error |-> error, meta |-> meta]

NoError == [class |-> None, text |-> None]

NoMeta == [tool |-> None, latency_ms |-> 0]

NoToolResult == ToolResult(FALSE, None, NoError, NoMeta)

\* The names a batch may hold, in dict order.
BatchOrder == <<"flights", "weather">>

Names == {BatchOrder[i] : i \in 1..Len(BatchOrder)}

\* What the callable did: nothing yet, returned, raised an Exception with a
\* text, or raised asyncio.CancelledError (a BaseException).
NoOutcome == [kind |-> "none", text |-> None]

NoTask == [pc |-> "absent", elapsed |-> 0, outcome |-> NoOutcome, result |-> NoToolResult]

NoTasks == [k \in Names |-> NoTask]

\* results is the dict run_parallel fills: its keys are awaited.
IdleParallel == [pc |-> "idle", batch |-> {}, awaited |-> {},
                 results |-> [k \in Names |-> NoToolResult]]

(* run_conversation_graph lines 697-704 and the MemorySaver checkpointer:  *)
(* the conversations that send messages and the thread ids in use.         *)
Conversations == {"a", "b"}

ThreadIds == {"default"}

NoCheckpoint ==
  [saved |-> FALSE, user_input |-> None, context |-> EmptyContext, writers |-> {}]

(* ui/ui.py lines 639-651: txt.submit and send_btn.click both run           *)
(***************************************************************************)
(* utils/tooling.py lines 47-85: validate_flights and extract_min_price.   *)
(* An element of the raw list is a non-dict value or a dict; a dict is     *)
(* given by the keys the code reads.  A missing key is None.  The price    *)
(* value is a number or a string, written as its text.                     *)
(***************************************************************************)
MaxItems == 3

PriceValues ==
  {[form |-> "absent", text |-> None]} \cup
  [form : {"float"}, text : {"95", "120"}] \cup
  [form : {"str"}, text : {"120", "abc"}]

NonDictItem ==
  [type |-> "str", error |-> None, has_error |-> FALSE,
   price |-> [form |-> "absent", text |-> None], departure_airport |-> None]

ErrorItems ==
  [type : {"dict"}, has_error : {TRUE}, error : {"no route", ""},
   price : {[form |-> "absent", text |-> None]}, departure_airport : {None}]

OfferItems ==
  [type : {"dict"}, has_error : {FALSE}, error : {None},
   price : PriceValues, departure_airport : {None, "DEL"}]

RawItems == {NonDictItem} \cup ErrorItems \cup OfferItems

RECURSIVE ListsUpTo(_, _)
ListsUpTo(S, n) ==
  IF n = 0 THEN {<<>>}
  ELSE LET shorter == ListsUpTo(S, n - 1)
       IN shorter \cup {Append(l, x) : l \in {m \in shorter : Len(m) = n - 1}, x \in S}

\* The values validate_flights may be handed: a list, or a value of another type.
RawInputs ==
  [type : {"list"}, items : ListsUpTo(RawItems, MaxItems)] \cup
  [type : {"str", "dict", "NoneType", "int"}, items : {<<>>}]

NoRaw == [type |-> "unset", items |-> <<>>]

\* float(x): the number a numeric text stands for; -1 marks ValueError.
float(text) ==
  CASE text = "95" -> 95
    [] text = "120" -> 120
    [] OTHER -> -1

FlightOffer(price, departure_airport) ==
  [price |-> price, currency |-> "USD", departure_airport |-> departure_airport,
   arrival_airport |-> "GOI", departure_time |-> "10:00", airline |-> ""]

\* Lines 58-69: the try block on one dict without an error key.  The
\* arguments are evaluated in order, so the first failing one decides e.
Coerce(item) ==
  IF item.price.form = "absent"
    THEN [ok |-> FALSE, offer |-> FlightOffer(0, None), error |-> "bad_item:'price'"]
  ELSE IF float(item.price.text) = -1
    THEN [ok |-> FALSE, offer |-> FlightOffer(0, None),
          error |-> "bad_item:could not convert string to float: 'abc'"]
  ELSE IF item.departure_airport = None
    THEN [ok |-> FALSE, offer |-> FlightOffer(0, None),
          error |-> "bad_item:'departure_airport'"]
  ELSE [ok |-> TRUE, offer |-> FlightOffer(float(item.price.text), item.departure_airport),
        error |-> None]

\* Lines 53-69: the body of the for loop, on the accumulator out.
ValidateItem_aborts(out, item) ==
  IF item.type # "dict" THEN [out EXCEPT !.errors = Append(@, "non_dict_item")]
  ELSE IF item.has_error
    THEN [out EXCEPT !.errors = Append(@, IF Truthy(item.error) THEN item.error
                                          ELSE "flight_error")]
  ELSE IF Coerce(item).ok THEN [out EXCEPT !.offers = Append(@, Coerce(item).offer)]
  ELSE [out EXCEPT !.errors = Append(@, Coerce(item).error), !.raised = TRUE]

ValidateItem_no_continue(out, item) ==
  IF item.type # "dict" THEN [out EXCEPT !.errors = Append(@, "non_dict_item")]
  ELSE IF item.has_error
    THEN [out EXCEPT !.errors = Append(@, IF Truthy(item.error) THEN item.error
                                          ELSE "flight_error") \o <<Coerce(item).error>>]
  ELSE IF Coerce(item).ok THEN [out EXCEPT !.offers = Append(@, Coerce(item).offer)]
  ELSE [out EXCEPT !.errors = Append(@, Coerce(item).error)]

ValidateItem(out, item) ==
  IF item.type # "dict" THEN [out EXCEPT !.errors = Append(@, "non_dict_item")]
  ELSE IF item.has_error
    THEN [out EXCEPT !.errors = Append(@, IF Truthy(item.error) THEN item.error
                                          ELSE "flight_error")]
  ELSE IF Coerce(item).ok THEN [out EXCEPT !.offers = Append(@, Coerce(item).offer)]
  ELSE [out EXCEPT !.errors = Append(@, Coerce(item).error)]

RECURSIVE ValidateLoop(_, _)
ValidateLoop(out, items) ==
  IF items = <<>> \/ out.raised THEN out
  ELSE ValidateLoop(ValidateItem(out, Head(items)), Tail(items))

NoValidated == [offers |-> <<>>, errors |-> <<>>, raised |-> FALSE]

\* Lines 47-70.  raised records an exception leaving the function.
validate_flights_iterates_any(r) ==
  ValidateLoop(NoValidated, r.items)

validate_flights(r) ==
  IF r.type # "list" THEN [NoValidated EXCEPT !.errors = <<"not_list">>]
  ELSE ValidateLoop(NoValidated, r.items)

NoPrice == [is_none |-> TRUE, price |-> 0]

RECURSIVE MinOfPrices(_, _)
MinOfPrices(offers, best) ==
  IF offers = <<>> THEN best
  ELSE MinOfPrices(Tail(offers),
                   IF Head(offers).price < best THEN Head(offers).price ELSE best)

\* Lines 79-85: min over the prices; every FlightOffer price is a float.
extract_min_price_first(offers) ==
  IF offers = <<>> THEN NoPrice
  ELSE [is_none |-> FALSE, price |-> offers[1].price]

extract_min_price(offers) ==
  IF offers = <<>> THEN NoPrice
  ELSE [is_none |-> FALSE, price |-> MinOfPrices(Tail(offers), Head(offers).price)]

(* The callers of replan: each conversation holds its own ctx and plan;     *)
(* solo_keys, solo_plan and solo_ret are history: what _prev_keys, the plan *)
(* and the last return value would be had only this conversation called.   *)
NoPeer ==
  [ctx |-> EmptyContext, plan |-> <<>>, called |-> FALSE, first |-> FALSE,
   ret |-> <<>>, solo_keys |-> NoKeys, solo_plan |-> <<>>, solo_ret |-> <<>>]

NoPeers == [c \in Conversations |-> NoPeer]

(***************************************************************************)
(* tools/budget.py: the trip_details handed to trip_budget_estimator by    *)
(* trip_planner_node (lines 270-277; activities is always []), the cache   *)
(* key and the module-level cache.  flight_cost 0 is the missing key.      *)
(***************************************************************************)
TripDetails ==
  [destination : {None, "Goa", "Pune"}, flight_cost : {0, 95, 120},
   nights : {1, 3}, travelers : {2}, activities : {<<>>}]

NoDetails ==
  [destination |-> None, flight_cost |-> 0, nights |-> 0, travelers |-> 0,
   activities |-> <<>>]

\* Line 9: destination.lower().strip()
LowerStrip(d) ==
  CASE d = "Goa" -> "goa"
    [] d = "Pune" -> "pune"
    [] OTHER -> d

\* Lines 6-16: the parameters the key is the digest of.
create_budget_cache_key(d) ==
  [destination |-> LowerStrip(d.destination), nights |-> d.nights, travelers |-> d.travelers,
   activities |-> d.activities, has_flight |-> TruthyNum(d.flight_cost)]

CacheKeys == {create_budget_cache_key(d) : d \in {x \in TripDetails : Truthy(x.destination)}}

\* What the function returns: an estimate the model computed from the prompt
\* built from the details in "of", or one of the two fixed error texts.
Estimate(d) == [kind |-> "estimate", of |-> d]

NoEstimate == [kind |-> "none", of |-> NoDetails]

DestinationRequired == [kind |-> "destination_required", of |-> NoDetails]

EstimationFailed == [kind |-> "failed", of |-> NoDetails]

EmptyCache == [k \in CacheKeys |-> NoEstimate]

NoBudgetCall == [request |-> NoDetails, returned |-> NoEstimate, hit |-> FALSE]

\* Lines 23-91, with the cache c and whether llm.invoke raises: the value
\* returned, the cache afterwards, and whether line 47 returned.
trip_budget_estimator(d, c, llm_raises) ==
  IF ~Truthy(d.destination)
    THEN [returned |-> DestinationRequired, cache |-> c, hit |-> FALSE]
  ELSE IF c[create_budget_cache_key(d)] # NoEstimate
    THEN [returned |-> c[create_budget_cache_key(d)], cache |-> c, hit |-> TRUE]
  ELSE IF llm_raises
    THEN [returned |-> EstimationFailed, cache |-> c, hit |-> FALSE]
  ELSE [returned |-> Estimate(d),
        cache |-> [c EXCEPT ![create_budget_cache_key(d)] = Estimate(d)],
        hit |-> FALSE]

(* process_message; a listener runs one call at a time.                     *)
Listeners == {"submit", "click"}

FreeJob == [pc |-> "free", e |-> NoExtraction, ctx |-> EmptyContext]

NoJobs == [l \in Listeners |-> FreeJob]

InitTurnVars ==
  /\ pc = "idle"
  /\ turn = [response |-> "", missing_info |-> FALSE, planning_stage |-> "",
             errors |-> <<>>]
  /\ results = NoResults
  /\ calls = <<>>
  /\ log = <<>>
  /\ flights_raw = NoFlights
  /\ prev_run = FALSE
  /\ jobs = NoJobs
  /\ tasks = NoTasks
  /\ rp = IdleParallel
  /\ ctx_thread = None
  /\ convs = [c \in Conversations |-> None]
  /\ store = [t \in ThreadIds |-> NoCheckpoint]
  /\ raw = NoRaw
  /\ validated = NoValidated
  /\ min_price = NoPrice
  /\ peers = NoPeers
  /\ cache = EmptyCache
  /\ budget = NoBudgetCall

Init ==
  /\ context = EmptyContext
  /\ prev_keys = NoKeys
  /\ plan = <<>>
  /\ built = NoBuilt
  /\ last = NoCall
  /\ InitTurnVars

CompletedRun == turn.response \in {"itinerary", "partial"}

(* process_message -> agent_chat -> run_conversation_graph: one message is  *)
(* taken through conversation_agent and, when routed, through               *)
(* trip_planner_node up to its first tool call or its reply.                *)
RunTurn(ui, intent, e, inferred) ==
  \* st and reply are bound by \E over singletons: each is computed once.
  \E st \in {conversation_agent(context, ui, intent, e, inferred)} :
  \E reply \in {IF smart_router(st)
                 THEN trip_planner_slots(st.context, ui, st.planning_stage)
                 ELSE Reply(st.context, st.response, FALSE, FALSE)} :
     /\ context' = reply.context
     /\ turn' = [response |-> reply.response, missing_info |-> reply.missing_info,
                 planning_stage |-> st.planning_stage, errors |-> <<>>]
     /\ pc' = IF reply.proceed THEN "activities" ELSE "idle"
     /\ prev_run' = (reply.proceed /\ CompletedRun /\ reply.context = context)
     /\ results' = NoResults
     /\ calls' = <<>>
     /\ log' = <<>>
     /\ flights_raw' = NoFlights
     /\ UNCHANGED <<planVars, jobs, toolVars, restVars>>

\* A message classified as unsafe, exploration or chat.
UserChat ==
  /\ pc = "idle"
  /\ \E intent \in Intents \ {"plan"} :
       RunTurn("plan a trip to goa", intent, NoExtraction, None)

\* A message classified as planning.
UserPlan ==
  /\ pc = "idle"
  /\ \E ui \in Utterances, e \in Extractions :
       IF Truthy(ApplyExtracted(context, e).destination)
         THEN RunTurn(ui, "plan", e, None)
         ELSE \E inferred \in {None, "Goa"} : RunTurn(ui, "plan", e, inferred)

CanFail == Len(log) < MaxFailures

\* The statement reached after the call of a tool: safe_call returns in both
\* branches, so the node goes on to the next tool whatever the outcome.
AfterCall_aborts(label, raised) ==
  IF raised THEN "idle"
  ELSE CASE label = "activities" -> "map"
         [] label = "map" -> "weather"
         [] label = "weather" -> "flights"
         [] label = "flights" -> "budget"
         [] label = "budget" -> "assemble"
         [] OTHER -> "idle"

AfterCall(label, raised) ==
  CASE label = "activities" -> "map"
    [] label = "map" -> "weather"
    [] label = "weather" -> "flights"
    [] label = "flights" -> "budget"
    [] label = "budget" -> "assemble"
    [] OTHER -> "idle"

\* Lines 192-197.
CallActivities ==
  /\ pc = "activities"
  /\ \E out \in TextOutcomes("activities") :
       /\ out.raised => CanFail
       /\ results' = [results EXCEPT !.activities = safe_call(out)]
       /\ log' = Logged(log, "activities", out)
       /\ pc' = AfterCall("activities", out.raised)
  /\ calls' = Called(calls, "activities", None)
  /\ UNCHANGED <<context, turn, flights_raw, prev_run>>
  /\ UNCHANGED <<planVars, jobs, toolVars, restVars>>

\* Lines 199-207.
CallMap ==
  /\ pc = "map"
  /\ \E out \in TextOutcomes("map") :
       /\ out.raised => CanFail
       /\ results' = [results EXCEPT !.map = safe_call(out)]
       /\ log' = Logged(log, "map", out)
       /\ pc' = AfterCall("map", out.raised)
  /\ calls' = Called(calls, "map", None)
  /\ UNCHANGED <<context, turn, flights_raw, prev_run>>
  /\ UNCHANGED <<planVars, jobs, toolVars, restVars>>

\* Lines 209-214.
CallWeather ==
  /\ pc = "weather"
  /\ \E out \in TextOutcomes("weather") :
       /\ out.raised => CanFail
       /\ results' = [results EXCEPT !.weather = safe_call(out)]
       /\ log' = Logged(log, "weather", out)
       /\ pc' = AfterCall("weather", out.raised)
  /\ calls' = Called(calls, "weather", context.start_date)
  /\ UNCHANGED <<context, turn, flights_raw, prev_run>>
  /\ UNCHANGED <<planVars, jobs, toolVars, restVars>>

\* Lines 216-264, the flights tool returning a list.
FlightsReturn ==
  /\ pc = "flights"
  /\ \E list \in FlightLists :
       /\ flights_raw' = [returned |-> TRUE, list |-> list]
       /\ results' = [results EXCEPT !.flights = IF list # <<>>
                                                  THEN format_flights_for_display(list)
                                                  ELSE ""]
       /\ context' = DeriveFlightCost(context, list)
  /\ calls' = Called(calls, "flights", context.start_date)
  /\ pc' = AfterCall("flights", FALSE)
  /\ UNCHANGED <<turn, log, prev_run>>
  /\ UNCHANGED <<planVars, jobs, toolVars, restVars>>

\* Lines 216-264, the flights tool raising.
FlightsRaise ==
  /\ pc = "flights"
  /\ CanFail
  /\ \E e \in ExcTexts("flights") : log' = Logged(log, "flights", Raised(e))
  /\ results' = [results EXCEPT !.flights = ""]
  /\ calls' = Called(calls, "flights", context.start_date)
  /\ pc' = AfterCall("flights", TRUE)
  /\ UNCHANGED <<context, turn, flights_raw, prev_run>>
  /\ UNCHANGED <<planVars, jobs, toolVars, restVars>>

\* Lines 266-302.  The local flights_raw is not read after line 260.
CallBudget ==
  /\ pc = "budget"
  /\ \E out \in TextOutcomes("budget") :
       /\ out.raised => CanFail
       /\ results' = [results EXCEPT !.budget = safe_call(out)]
       /\ log' = Logged(log, "budget", out)
       /\ pc' = AfterCall("budget", out.raised)
  /\ calls' = Called(calls, "budget", None)
  /\ flights_raw' = NoFlights
  /\ UNCHANGED <<context, turn, prev_run>>
  /\ UNCHANGED <<planVars, jobs, toolVars, restVars>>

\* Lines 304-324: the assembler, then state.update(...) and the return.
Assemble ==
  /\ pc = "assemble"
  /\ \E out \in TextOutcomes("assembler") :
       /\ out.raised => CanFail
       /\ turn' = [turn EXCEPT !.response = IF out.raised THEN "partial" ELSE "itinerary",
                               !.missing_info = FALSE]
       /\ pc' = AfterCall("assembler", out.raised)
       /\ log' = Logged(log, "assembler", out)
  /\ calls' = Called(calls, "assembler", None)
  /\ UNCHANGED <<context, results, flights_raw, prev_run>>
  /\ UNCHANGED <<planVars, jobs, toolVars, restVars>>

Next ==
  \/ UserChat
  \/ UserPlan
  \/ CallActivities
  \/ CallMap
  \/ CallWeather
  \/ FlightsReturn
  \/ FlightsRaise
  \/ CallBudget
  \/ Assemble

Spec == Init /\ [][Next]_vars

(***************************************************************************)
(* SpecPlan: a caller that keeps a plan, advances step statuses, and calls *)
(* build_plan / replan with contexts drawn from PlanContexts.              *)
(***************************************************************************)
MaxMarks == 2

InitPlan ==
  /\ context = EmptyContext
  /\ prev_keys = NoKeys
  /\ plan = <<>>
  /\ built = NoBuilt
  /\ last = NoCall
  /\ InitTurnVars

Marked(p) == Cardinality({i \in 1..Len(p) : p[i].status # "pending"})

\* The plan's owner moves the first pending step to a terminal status.
MarkStep ==
  /\ Marked(plan) < MaxMarks
  /\ \E i \in 1..Len(plan), s \in {"done", "error"} :
       /\ plan[i].status = "pending"
       /\ \A j \in 1..(i - 1) : plan[j].status # "pending"
       /\ plan' = [plan EXCEPT ![i].status = s]
  /\ last' = NoCall
  /\ UNCHANGED <<context, prev_keys, built>>
  /\ UNCHANGED <<turnVars, jobs, toolVars, restVars>>

\* The caller's context changes in one slot between two calls.
SetSlot ==
  /\ \E c \in PlanContexts :
       /\ Cardinality({k \in DOMAIN c : c[k] # context[k]}) = 1
       /\ context' = c
  /\ last' = NoCall
  /\ UNCHANGED <<prev_keys, plan, built>>
  /\ UNCHANGED <<turnVars, jobs, toolVars, restVars>>

BuildPlanCall ==
  /\ last' = [op |-> "build", ctx |-> context, previous |-> <<>>,
              ret |-> build_plan(context), before |-> built, rebuilt |-> TRUE]
  /\ UNCHANGED <<context, prev_keys, plan, built>>
  /\ UNCHANGED <<turnVars, jobs, toolVars, restVars>>

ReplanCall ==
  LET r == replan(context, plan, prev_keys) IN
    /\ prev_keys' = r.prev_keys
    /\ plan' = r.plan
    /\ built' = IF r.rebuilt THEN [valid |-> TRUE, ctx |-> context] ELSE built
    /\ last' = [op |-> "replan", ctx |-> context, previous |-> plan, ret |-> r.plan,
                before |-> built, rebuilt |-> r.rebuilt]
    /\ UNCHANGED context
    /\ UNCHANGED <<turnVars, jobs, toolVars, restVars>>

NextPlan == SetSlot \/ MarkStep \/ BuildPlanCall \/ ReplanCall

SpecPlan == InitPlan /\ [][NextPlan]_vars

(***************************************************************************)
(* SpecUI: ui/ui.py.  One TripPlannerUI object serves every message; its   *)
(* self.context is read when a turn starts and written when it returns.    *)
(* Each of the two event listeners runs one process_message call at a      *)
(* time; the calls of different listeners are not ordered by anything.     *)
(***************************************************************************)
\* ThreadPoolExecutor(max_workers=3)
max_workers == 3

\* The slots a message of this specification may carry.
UiExtractions ==
  {e \in Extractions : e.date = None /\ e.duration = 0 /\ e.flight_cost = 0}

Running == {l \in Listeners : jobs[l].pc = "running"}

\* run_conversation_graph(prompt, [], ctx): the context of the returned state.
\* The messages here never complete the slots, so no tool is reached.
GraphContext(ctx, ui, e) ==
  LET st == conversation_agent(ctx, ui, "plan", e, None)
  IN IF smart_router(st)
       THEN trip_planner_slots(st.context, ui, st.planning_stage).context
       ELSE st.context

InitUI ==
  /\ context = EmptyContext
  /\ prev_keys = NoKeys
  /\ plan = <<>>
  /\ built = NoBuilt
  /\ last = NoCall
  /\ InitTurnVars

\* process_message lines 39-63: a non-empty message arrives on a listener,
\* the user line and the thinking indicator are yielded.
UiReceive(l) ==
  /\ jobs[l].pc = "free"
  /\ \E e \in UiExtractions : jobs' = [jobs EXCEPT ![l] = [pc |-> "thinking", e |-> e,
                                                         ctx |-> EmptyContext]]
  /\ UNCHANGED <<context, planVars, turnVars, toolVars, restVars>>

\* agent_chat / agent_chat_async lines 15-22: run_conversation_graph is
\* submitted to the pool with the current self.context.
UiStart(l) ==
  /\ jobs[l].pc = "thinking"
  /\ Cardinality(Running) < max_workers
  /\ jobs' = [jobs EXCEPT ![l].pc = "running", ![l].ctx = context]
  /\ UNCHANGED <<context, planVars, turnVars, toolVars, restVars>>

\* Lines 23-25 and 66-87: the turn returns, self.context is replaced by the
\* returned context, the response is streamed.
UiFinish(l) ==
  /\ jobs[l].pc = "running"
  /\ context' = GraphContext(jobs[l].ctx, "plan a trip to goa", jobs[l].e)
  /\ jobs' = [jobs EXCEPT ![l] = FreeJob]
  /\ UNCHANGED <<planVars, turnVars, toolVars, restVars>>

NextUI == \E l \in Listeners : UiReceive(l) \/ UiStart(l) \/ UiFinish(l)

SpecUI == InitUI /\ [][NextUI]_vars

(***************************************************************************)
(* SpecTool: utils/tooling.py.  A caller runs run_parallel on a batch; each *)
(* name's task is one run_tool call.  Time passes in ticks while a callable *)
(* is running; a callable that never finishes is one that is never resumed. *)
(***************************************************************************)
MaxTicks == 4

\* The per-call timeout of the wrapper's contract, in ticks; the code has none.
StepTimeout == 3

InitTool ==
  /\ context = EmptyContext
  /\ prev_keys = NoKeys
  /\ plan = <<>>
  /\ built = NoBuilt
  /\ last = NoCall
  /\ InitTurnVars

otherVars == <<context, planVars, turnVars, jobs, restVars>>

\* run_parallel line 37: one task per entry of the batch.
ParallelStart ==
  /\ rp.pc = "idle"
  /\ \E batch \in SUBSET Names :
       /\ tasks' = [k \in Names |-> IF k \in batch THEN [NoTask EXCEPT !.pc = "created"]
                                                  ELSE NoTask]
       /\ rp' = [IdleParallel EXCEPT !.pc = "awaiting", !.batch = batch]
  /\ UNCHANGED otherVars

\* run_tool lines 27-29: the clock is read and the callable is entered.
ToolCall(k) ==
  /\ tasks[k].pc = "created"
  /\ tasks' = [tasks EXCEPT ![k].pc = "calling"]
  /\ UNCHANGED <<rp, otherVars>>

\* A tick of time.time() while the callable runs.
ToolTick(k) ==
  /\ tasks[k].pc = "calling"
  /\ tasks[k].elapsed < MaxTicks
  /\ tasks' = [tasks EXCEPT ![k].elapsed = @ + 1]
  /\ UNCHANGED <<rp, otherVars>>

Meta(k) == [tool |-> k, latency_ms |-> tasks[k].elapsed]

\* Lines 29-31: the callable returns.
ToolReturn(k) ==
  /\ tasks[k].pc = "calling"
  /\ tasks' = [tasks EXCEPT ![k].pc = "done",
                            ![k].outcome = [kind |-> "returned", text |-> None],
                            ![k].result = ToolResult(TRUE, "payload", NoError, Meta(k))]
  /\ UNCHANGED <<rp, otherVars>>

\* Lines 32-33: the callable raises an Exception.
ToolRaise(k) ==
  /\ tasks[k].pc = "calling"
  /\ \E e \in ErrTexts :
       tasks' = [tasks EXCEPT ![k].pc = "done",
                              ![k].outcome = [kind |-> "raised", text |-> e],
                              ![k].result =
                                ToolResult(FALSE, None,
                                           [class |-> classify_error(e), text |-> e],
                                           Meta(k))]
  /\ UNCHANGED <<rp, otherVars>>

\* The callable, or the awaitable it returned, raises asyncio.CancelledError:
\* not an Exception, so line 32 does not catch it and the task is cancelled.
ToolCancelled(k) ==
  /\ tasks[k].pc = "calling"
  /\ tasks' = [tasks EXCEPT ![k].pc = "cancelled",
                            ![k].outcome = [kind |-> "cancelled", text |-> None]]
  /\ UNCHANGED <<rp, otherVars>>

\* The task run_parallel's loop (line 39) awaits next.
NextAwaited(k) ==
  /\ rp.pc = "awaiting"
  /\ k \in rp.batch \ rp.awaited
  /\ \A i, j \in 1..Len(BatchOrder) :
       (BatchOrder[j] = k /\ i < j /\ BatchOrder[i] \in rp.batch) =>
         BatchOrder[i] \in rp.awaited

\* Lines 40-41: await t returns the task's ToolResult.
AwaitResult(k) ==
  /\ NextAwaited(k)
  /\ tasks[k].pc = "done"
  /\ rp' = [rp EXCEPT !.awaited = @ \cup {k}, !.results[k] = tasks[k].result]
  /\ UNCHANGED <<tasks, otherVars>>

\* Lines 40-43: await t raises CancelledError, which except Exception lets
\* through: run_parallel raises.
AwaitCancelled(k) ==
  /\ NextAwaited(k)
  /\ tasks[k].pc = "cancelled"
  /\ rp' = [rp EXCEPT !.pc = "raised"]
  /\ UNCHANGED <<tasks, otherVars>>

\* Line 44.
ParallelReturn ==
  /\ rp.pc = "awaiting"
  /\ rp.awaited = rp.batch
  /\ rp' = [rp EXCEPT !.pc = "returned"]
  /\ UNCHANGED <<tasks, otherVars>>

\* The caller is done with the call and may make another.
ParallelDone ==
  /\ rp.pc \in {"returned", "raised"}
  /\ rp' = IdleParallel
  /\ tasks' = NoTasks
  /\ UNCHANGED otherVars

NextTool ==
  \/ ParallelStart
  \/ \E k \in Names : ToolCall(k) \/ ToolTick(k) \/ ToolReturn(k) \/ ToolRaise(k)
                        \/ ToolCancelled(k) \/ AwaitResult(k) \/ AwaitCancelled(k)
  \/ ParallelReturn
  \/ ParallelDone

SpecTool == InitTool /\ [][NextTool]_vars

(***************************************************************************)
(* SpecThreads: the messages of several conversations (browser sessions)   *)
(* reach run_conversation_graph through the one TripPlannerUI object and   *)
(* its self.context; the compiled graph saves its state under a thread id. *)
(***************************************************************************)
InitThreads ==
  /\ context = EmptyContext
  /\ prev_keys = NoKeys
  /\ plan = <<>>
  /\ built = NoBuilt
  /\ last = NoCall
  /\ InitTurnVars

\* Lines 697-701: thread_id = context.get('_thread_id'), else 'default'.
thread_id_of(t) == IF Truthy(t) THEN t ELSE "default"

\* One message of conversation c: agent_chat_async hands self.context to
\* run_conversation_graph, the graph runs and is checkpointed under the
\* thread id, and self.context is replaced by the returned context.
ConvMessage(c) ==
  \E ui \in Utterances, e \in UiExtractions :
  \E returned \in {GraphContext(context, ui, e)} :
    /\ ctx_thread' = thread_id_of(ctx_thread)
    /\ context' = returned
    /\ convs' = [convs EXCEPT ![c] = thread_id_of(ctx_thread)]
    /\ store' = [store EXCEPT ![thread_id_of(ctx_thread)] =
                   [saved |-> TRUE, user_input |-> ui, context |-> returned,
                    writers |-> @.writers \cup {c}]]
    /\ UNCHANGED <<planVars, turnVars, jobs, toolVars, valVars, peers, cache, budget>>

NextThreads == \E c \in Conversations : ConvMessage(c)

SpecThreads == InitThreads /\ [][NextThreads]_vars

(***************************************************************************)
(* SpecBoundary: one message through agent_chat (ui/ui.py lines 27-37),    *)
(* with the intent classifier's language model as an input that may answer *)
(* outside its contract.                                                   *)
(***************************************************************************)
\* The first answer of the classifier's model: a JSON object holding intent
\* and ready_to_plan, a JSON object lacking one of them, text without a JSON
\* object, or an exception from invoke / loads.
ClassifierAnswers ==
  [kind : {"valid", "incomplete", "no_json", "raises"}, intent : {"explore", "chat", "plan"}]

\* The answer to the simpler prompt of _intelligent_fallback.
FallbackAnswers ==
  [kind : {"json", "no_json", "raises"}, intent : {"explore", "chat", "plan"}]

\* intelligent_intent.py lines 61-97: the intent of the returned dict, or
\* None when the function falls off its end (no JSON object in the answer).
intelligent_fallback(fb) ==
  CASE fb.kind = "json" -> fb.intent
    [] fb.kind = "no_json" -> None
    [] fb.kind = "raises" -> "chat"

\* intelligent_intent.py lines 40-53: the intent of the returned dict, or
\* None when no return statement is reached inside the try block.
classify_intent(a, fb) ==
  CASE a.kind = "valid" -> a.intent
    [] a.kind = "incomplete" -> None
    [] a.kind = "no_json" -> None
    [] a.kind = "raises" -> intelligent_fallback(fb)

\* ui.py line 37: the dict agent_chat returns from its except branch; it has
\* no planning_stage key.
ErrorResponse == "Error processing request: 'NoneType' object has no attribute 'get'"

InitBoundary ==
  /\ context = EmptyContext
  /\ prev_keys = NoKeys
  /\ plan = <<>>
  /\ built = NoBuilt
  /\ last = NoCall
  /\ InitTurnVars

\* conversation_agent line 567 calls .get on the classifier's return value:
\* None raises AttributeError, which leaves the graph, run_conversation_graph
\* and agent_chat_async, and is caught at ui.py line 36.
AgentChatRaises ==
  /\ pc \in {"idle", "caught"}
  /\ \E a \in ClassifierAnswers, fb \in FallbackAnswers :
       /\ classify_intent(a, fb) = None
       /\ turn' = [response |-> ErrorResponse, missing_info |-> FALSE,
                   planning_stage |-> None, errors |-> <<>>]
       /\ pc' = "caught"
  /\ UNCHANGED <<context, planVars, results, calls, log, flights_raw, prev_run,
                 jobs, toolVars, restVars>>

\* The classifier returned a dict: the turn runs and agent_chat returns the
\* graph's state.  The messages here never complete the slots.
AgentChatReturns ==
  /\ pc \in {"idle", "caught"}
  /\ \E a \in ClassifierAnswers, fb \in FallbackAnswers, ui \in Utterances,
        e \in UiExtractions :
       /\ classify_intent(a, fb) # None
       /\ \E st \in {conversation_agent(context, ui, classify_intent(a, fb), e, None)} :
          \E reply \in {IF smart_router(st)
                          THEN trip_planner_slots(st.context, ui, st.planning_stage)
                          ELSE Reply(st.context, st.response, FALSE, FALSE)} :
            /\ context' = reply.context
            /\ turn' = [response |-> reply.response,
                        missing_info |-> reply.missing_info,
                        planning_stage |-> st.planning_stage, errors |-> <<>>]
            /\ pc' = "idle"
  /\ UNCHANGED <<planVars, results, calls, log, flights_raw, prev_run,
                 jobs, toolVars, restVars>>

NextBoundary == AgentChatRaises \/ AgentChatReturns

SpecBoundary == InitBoundary /\ [][NextBoundary]_vars

(***************************************************************************)
(* SpecValidate: validate_flights and extract_min_price applied to the     *)
(* values a caller may hand them.                                          *)
(***************************************************************************)
InitValidate ==
  /\ context = EmptyContext
  /\ prev_keys = NoKeys
  /\ plan = <<>>
  /\ built = NoBuilt
  /\ last = NoCall
  /\ InitTurnVars

\* The caller obtains a raw value.
RawArrives ==
  /\ pc = "idle"
  /\ raw' \in RawInputs
  /\ pc' = "raw"
  /\ UNCHANGED <<context, planVars, turn, results, calls, log, flights_raw, prev_run,
                 jobs, toolVars, threadVars, peers, cache, budget, validated, min_price>>

ValidateFlights ==
  /\ pc = "raw"
  /\ validated' = validate_flights(raw)
  /\ pc' = "validated"
  /\ UNCHANGED <<context, planVars, turn, results, calls, log, flights_raw, prev_run,
                 jobs, toolVars, threadVars, peers, cache, budget, raw, min_price>>

ExtractMinPrice ==
  /\ pc = "validated"
  /\ min_price' = extract_min_price(validated.offers)
  /\ pc' = "priced"
  /\ UNCHANGED <<context, planVars, turn, results, calls, log, flights_raw, prev_run,
                 jobs, toolVars, threadVars, peers, cache, budget, raw, validated>>

NextValidate == RawArrives \/ ValidateFlights \/ ExtractMinPrice

SpecValidate == InitValidate /\ [][NextValidate]_vars

(***************************************************************************)
(* SpecPeers: two conversations call replan (utils/plan.py lines 42-51),   *)
(* each with its own ctx and previous plan; replan._prev_keys is an        *)
(* attribute of the function object, one per process.                      *)
(***************************************************************************)
InitPeers ==
  /\ context = EmptyContext
  /\ prev_keys = NoKeys
  /\ plan = <<>>
  /\ built = NoBuilt
  /\ last = NoCall
  /\ InitTurnVars

\* The contexts a conversation holds between its calls.
PeerContexts ==
  {c \in PlanContexts : c.duration_days = 0 /\ c.number_of_travelers = 0
                          /\ c.destination \in {None, "Goa"}}

\* One slot of a conversation's context changes.
PeerSetSlot(c) ==
  /\ \E x \in PeerContexts :
       /\ Cardinality({k \in DOMAIN x : x[k] # peers[c].ctx[k]}) = 1
       /\ peers' = [peers EXCEPT ![c].ctx = x]
  /\ UNCHANGED <<context, planVars, turnVars, jobs, toolVars, threadVars, valVars,
                 cache, budget>>

\* Conversation c calls replan(ctx, previous) with the plan it holds.
PeerReplan(c) ==
  \E r \in {replan(peers[c].ctx, peers[c].plan, prev_keys)} :
  \E solo \in {replan(peers[c].ctx, peers[c].solo_plan, peers[c].solo_keys)} :
    /\ prev_keys' = r.prev_keys
    /\ peers' = [peers EXCEPT ![c] =
                   [ctx |-> @.ctx, plan |-> r.plan, called |-> TRUE,
                    first |-> ~@.called, ret |-> r.plan,
                    solo_keys |-> solo.prev_keys, solo_plan |-> solo.plan,
                    solo_ret |-> solo.plan]]
    /\ UNCHANGED <<context, plan, built, last, turnVars, jobs, toolVars, threadVars,
                   valVars, cache, budget>>

NextPeers == \E c \in Conversations : PeerSetSlot(c) \/ PeerReplan(c)

SpecPeers == InitPeers /\ [][NextPeers]_vars

(***************************************************************************)
(* SpecBudget: the calls of trip_budget_estimator made by successive runs  *)
(* of trip_planner_node in one process.                                    *)
(***************************************************************************)
InitBudget ==
  /\ context = EmptyContext
  /\ prev_keys = NoKeys
  /\ plan = <<>>
  /\ built = NoBuilt
  /\ last = NoCall
  /\ InitTurnVars

BudgetCall ==
  \E d \in TripDetails, llm_raises \in BOOLEAN :
  \E r \in {trip_budget_estimator(d, cache, llm_raises)} :
    /\ cache' = r.cache
    /\ budget' = [request |-> d, returned |-> r.returned, hit |-> r.hit]
    /\ UNCHANGED <<context, planVars, turnVars, jobs, toolVars, threadVars, valVars,
                   peers>>

NextBudget == BudgetCall

SpecBudget == InitBudget /\ [][NextBudget]_vars

(***************************************************************************)
(* Claims about build_plan and replan (checked under SpecPlan)             *)
(***************************************************************************)
\* The trip signature of the replanner's contract:
\* (origin, destination, committed date, duration, traveler count).
Sig5(ctx) ==
  <<ctx.user_city, ctx.destination, ctx.committed_start_date,
    ctx.duration_days, ctx.number_of_travelers>>

\* The slots each step kind needs under the dependency policy.
PolicyRequires(kind) ==
  CASE kind = "flights" -> {"user_city", "destination", "committed_start_date"}
    [] kind = "weather" -> {"destination", "committed_start_date"}
    [] kind = "activities" -> {"destination"}
    [] kind = "nearby" -> {"destination"}
    [] kind = "budget" -> {"destination", "duration_days"}
    [] OTHER -> {}

SlotPresent(ctx, slot) ==
  IF slot \in {"duration_days", "number_of_travelers"}
    THEN TruthyNum(ctx[slot])
    ELSE Truthy(ctx[slot])

Kinds(p) == {p[i].step : i \in 1..Len(p)}

AllPending(p) == \A i \in 1..Len(p) : p[i].status = "pending"

\* C1: a plan returned by build_plan(ctx) holds a step of kind K only if
\* every slot K needs under the dependency policy is present in ctx.
C1_StepOnlyIfSlotsPresent ==
  (last.op = "build") =>
    \A K \in Kinds(last.ret) : \A slot \in PolicyRequires(K) : SlotPresent(last.ctx, slot)

\* A build on a context with a destination but no duration and no date: the
\* destination-only steps are admitted, budget, weather and flights are not.
C1_Witness ==
  /\ last.op = "build"
  /\ Truthy(last.ctx.destination)
  /\ ~TruthyNum(last.ctx.duration_days)
  /\ ~Truthy(last.ctx.committed_start_date)
  /\ Kinds(last.ret) = {"activities", "nearby", "assemble"}

\* C2: a replan call whose context has the signature recorded at the last
\* build returns exactly the plan it was handed.
C2_SameSignatureKeepsPrevious ==
  (last.op = "replan" /\ last.before.valid /\ Sig5(last.ctx) = Sig5(last.before.ctx)) =>
    last.ret = last.previous

\* Such a call, handed a plan whose first step has already finished.
C2_Witness ==
  /\ last.op = "replan"
  /\ last.before.valid
  /\ Sig5(last.ctx) = Sig5(last.before.ctx)
  /\ Len(last.previous) > 1
  /\ last.previous[1].status \in {"done", "error"}
  /\ last.ret = last.previous

\* C3 (as claimed): a replan call whose context differs from the last build
\* in any of origin, destination, committed date, duration or traveler count
\* returns build_plan(ctx), all steps pending.
C3_AnySignatureChangeRebuilds ==
  (last.op = "replan" /\ last.before.valid /\ Sig5(last.ctx) # Sig5(last.before.ctx)) =>
    (last.ret = build_plan(last.ctx) /\ AllPending(last.ret))

\* The fixed order of the step kinds.
FixedOrder == CORE_ORDER \o ENRICH_ORDER

Rank(kind) == CHOOSE i \in 1..Len(FixedOrder) : FixedOrder[i] = kind

\* C14: the step kinds of a plan returned by build_plan follow the fixed
\* order flights, weather, activities, nearby, budget, assemble with nothing
\* repeated, and a second call on the same context returns the same list.
C14_StepsFollowFixedOrder ==
  (last.op = "build") =>
    /\ \A i \in 1..Len(last.ret) : last.ret[i].step \in {FixedOrder[r] : r \in 1..Len(FixedOrder)}
    /\ \A i, j \in 1..Len(last.ret) :
         i < j => Rank(last.ret[i].step) < Rank(last.ret[j].step)
    /\ build_plan(last.ctx) = last.ret

\* A build that filtered flights out and kept the other five kinds.
C14_Witness ==
  /\ last.op = "build"
  /\ Len(last.ret) = 5
  /\ last.ret[1].step = "weather"
  /\ last.ret[4].step = "budget"

\* C15: every plan returned by build_plan holds exactly one assemble step,
\* without prerequisites, in the last position.
C15_AssembleOnceAndLast ==
  (last.op = "build") =>
    /\ Len(last.ret) >= 1
    /\ last.ret[Len(last.ret)].step = "assemble"
    /\ last.ret[Len(last.ret)].requires = <<>>
    /\ Cardinality({i \in 1..Len(last.ret) : last.ret[i].step = "assemble"}) = 1

\* The plan built from the empty context is the assemble step alone.
C15_Witness ==
  /\ last.op = "build"
  /\ last.ctx = EmptyContext
  /\ Len(last.ret) = 1
  /\ last.ret[1].step = "assemble"

\* C16: the step at position i of a plan returned by build_plan has id i.
C16_IdsAreSequential ==
  (last.op = "build") => \A i \in 1..Len(last.ret) : last.ret[i].id = i

\* A plan of three steps whose kinds were created with ids 3, 4 and 6.
C16_Witness ==
  /\ last.op = "build"
  /\ Kinds(last.ret) = {"activities", "nearby", "assemble"}
  /\ last.ret[3].step = "assemble"
  /\ last.ret[3].id = 3

(***************************************************************************)
(* Claims about a planning turn (checked under Spec)                       *)
(***************************************************************************)
ToolLabels == <<"activities", "map", "weather", "flights", "budget", "assembler">>

CalledLabels == [i \in 1..Len(calls) |-> calls[i].label]

LoggedLabels == {log[i].label : i \in 1..Len(log)}

FourSlotsPresent(ctx) ==
  /\ Truthy(ctx.user_city)
  /\ Truthy(ctx.destination)
  /\ Truthy(ctx.start_date)
  /\ TruthyNum(ctx.duration_days)

AllSlotsPresent(ctx) == FourSlotsPresent(ctx) /\ TruthyNum(ctx.number_of_travelers)

\* C4: no tool is invoked in a planning turn unless origin, destination,
\* start date, duration and traveler count are all present; a planning turn
\* that ends with only the traveler count missing has asked for it, with
\* missing_info set, and has called no tool.
C4_NoToolBeforeAllSlots ==
  /\ (calls # <<>> \/ pc # "idle") => AllSlotsPresent(context)
  /\ (turn.planning_stage = "plan" /\ FourSlotsPresent(context)
        /\ ~TruthyNum(context.number_of_travelers)) =>
       (turn.response = "number_of_travelers" /\ turn.missing_info
          /\ calls = <<>> /\ pc = "idle")

\* A turn that found everything but the traveler count and asked for it.
C4_Witness ==
  /\ turn.planning_stage = "plan"
  /\ FourSlotsPresent(context)
  /\ ~TruthyNum(context.number_of_travelers)
  /\ turn.response = "number_of_travelers"
  /\ calls = <<>>

C6_TimeoutIsClassifiedAndReported ==
  (pc = "idle" /\ CompletedRun
     /\ \E i \in 1..Len(log) : log[i] = [label |-> "flights", exc |-> "timeout"]) =>
    /\ \E i \in 1..Len(plan) : plan[i].step = "flights" /\ plan[i].status = "error"
    /\ \E i \in 1..Len(turn.errors) :
         turn.errors[i] = [step |-> "flights", class |-> "network_error"]

PricedOffers(list) == {list[i].price : i \in {j \in 1..Len(list) : list[j].price # 0}}

C8_SecondRunCallsNoTool == prev_run => calls = <<>>

\* The ISO dates a user message can carry, and the dates a turn can propose.
UserIsoDates ==
  ({IsoIn(u) : u \in Utterances} \cup {d \in DateTokens : IsIso(d)}) \ {None}

ProposedDates == {Fifteenth(month_map(m)) : m \in {t \in DateTokens : month_map(t) # None}}

\* C9 (as claimed): a committed start date is an ISO date the user gave or a
\* proposed date the user confirmed.
C9_CommittedOnlyFromIsoOrConfirmation ==
  context.committed_start_date \in ({None} \cup UserIsoDates \cup ProposedDates)

\* The slots in the order a turn asks for them, and the slot a response asks.
SlotOrder ==
  <<"user_city", "destination", "start_date", "duration_days", "number_of_travelers">>

AskedSlot(response) ==
  CASE response = "user_city" -> 1
    [] response \in {"destination", "which_destination"} -> 2
    [] response \in {"start_date", "propose_start_date"} -> 3
    [] response = "duration_days" -> 4
    [] response = "number_of_travelers" -> 5
    [] OTHER -> 0

\* C17 (as claimed): a turn that asks for a slot has every slot earlier in
\* the order origin, destination, start date, duration, traveler count.
C17_AsksFirstMissingSlot ==
  \A i \in 1..Len(SlotOrder) :
    i < AskedSlot(turn.response) => SlotPresent(context, SlotOrder[i])

\* C18 (as claimed): a planning turn that finds the start date to be the
\* next missing slot while the context holds a proposed start date answers
\* with that proposal.
C18_ProposedDateIsSurfaced ==
  (turn.planning_stage = "plan" /\ turn.missing_info
     /\ Truthy(context.user_city) /\ Truthy(context.destination)
     /\ ~Truthy(context.start_date) /\ Truthy(context.proposed_start_date)) =>
    turn.response = "propose_start_date"

\* C19 (as claimed): context.flight_cost changes only in the flights step.
C19_DerivedFieldsOnlyFromSteps ==
  [][context'.flight_cost # context.flight_cost => pc = "flights"]_vars

(***************************************************************************)
(* Claims about the invocation wrapper (checked under SpecTool)            *)
(***************************************************************************)
\* C11 (as claimed): a call that has run past the per-call timeout has been
\* ended by the wrapper with a failed ToolResult classified network_error.
C11_HungCallTimesOut ==
  \A k \in Names :
    tasks[k].elapsed > StepTimeout =>
      /\ tasks[k].pc = "done"
      /\ ~tasks[k].result.ok
      /\ tasks[k].result.error.class = "network_error"

\* C12 (as claimed): run_parallel never raises, and when it returns its map
\* holds one ToolResult for every name of the batch, failed for a name whose
\* callable raised or whose task failed.
C12_ParallelNeverRaises ==
  /\ rp.pc # "raised"
  /\ rp.pc = "returned" =>
       /\ rp.awaited = rp.batch
       /\ \A k \in rp.batch :
            /\ rp.results[k] # NoToolResult
            /\ tasks[k].outcome.kind # "returned" => ~rp.results[k].ok

\* The error texts that carry a network, connection or timeout marker, and
\* those that carry an invalid-input marker, whatever their letter case.
NetworkTexts == {"Connection timeout", "invalid network id"}

InvalidTexts == {"invalid network id", "Invalid date", "ValueError: bad day"}

ClaimedClass(e) ==
  IF e \in NetworkTexts THEN "network_error"
  ELSE IF e \in InvalidTexts THEN "invalid_input"
  ELSE "external_failure"

\* C13: a run_tool call whose callable raised an error has returned a failed
\* ToolResult of the class its text calls for (network before invalid input
\* before external_failure); one whose callable returned has returned ok
\* with the payload; both name the tool and carry the latency.
C13_RunToolClassifiesAndNeverRaises ==
  \A k \in Names :
    /\ tasks[k].outcome.kind = "raised" =>
         /\ tasks[k].pc = "done"
         /\ ~tasks[k].result.ok
         /\ tasks[k].result.error =
              [class |-> ClaimedClass(tasks[k].outcome.text), text |-> tasks[k].outcome.text]
         /\ tasks[k].result.meta = [tool |-> k, latency_ms |-> tasks[k].elapsed]
    /\ tasks[k].outcome.kind = "returned" =>
         /\ tasks[k].pc = "done"
         /\ tasks[k].result.ok
         /\ tasks[k].result.data = "payload"
         /\ tasks[k].result.meta = [tool |-> k, latency_ms |-> tasks[k].elapsed]

\* A callable raised a text with both an invalid and a network marker, and
\* another a capitalised invalid-input text, after some time.
C13_Witness ==
  /\ tasks["flights"].outcome = [kind |-> "raised", text |-> "invalid network id"]
  /\ tasks["flights"].result.error.class = "network_error"
  /\ tasks["weather"].outcome = [kind |-> "raised", text |-> "Invalid date"]
  /\ tasks["weather"].result.error.class = "invalid_input"
  /\ tasks["weather"].result.meta.latency_ms > 0

(***************************************************************************)
(* Claims about the UI (checked under SpecUI)                              *)
(***************************************************************************)
\* C10 (as claimed): at most one turn is executing on the shared context.
C10_TurnsAreSerialized == Cardinality(Running) <= 1

(***************************************************************************)
(* Claims about thread identity (checked under SpecThreads)                *)
(***************************************************************************)
\* C20 (as claimed): two conversations that arrived without a thread id run
\* under different thread ids, and no saved state is written by both.
C20_FreshThreadPerConversation ==
  /\ \A a, b \in Conversations :
       (a # b /\ convs[a] # None /\ convs[b] # None) => convs[a] # convs[b]
  /\ \A t \in ThreadIds : Cardinality(store[t].writers) <= 1

(***************************************************************************)
(* Claims about the turn boundary (checked under SpecBoundary)             *)
(***************************************************************************)
\* The responses that ask the user to try again and name what is still needed.
RetryResponses == {"try_again:" \o k : k \in {"user_city", "destination", "start_date"}}

\* C21 (as claimed): an exception caught at the turn boundary becomes a
\* response that asks the user to try again and says what is still needed.
C21_CaughtExceptionAsksToTryAgain ==
  pc = "caught" => turn.response \in RetryResponses /\ turn.missing_info

(***************************************************************************)
(* Claims about validate_flights and extract_min_price (SpecValidate)      *)
(***************************************************************************)
Validated == pc \in {"validated", "priced"}

\* A dict without an error key whose fields all coerce.
WellFormed(item) ==
  /\ item.type = "dict" /\ ~item.has_error
  /\ item.price.form # "absent" /\ item.price.text \in {"95", "120"}
  /\ item.departure_airport # None

Malformed(item) == item.type = "dict" /\ ~item.has_error /\ ~WellFormed(item)

NotWellFormed(item) == ~WellFormed(item)

IsBadItem(e) ==
  e \in {"bad_item:'price'", "bad_item:'departure_airport'",
         "bad_item:could not convert string to float: 'abc'"}

OffersOf(items) ==
  [i \in 1..Len(items) |-> FlightOffer(float(items[i].price.text), items[i].departure_airport)]

\* C22: for a list input validate_flights does not raise, every well-formed
\* element yields its FlightOffer in input order whatever surrounds it, and
\* each malformed element adds exactly one bad_item error.
C22_MalformedItemDoesNotAbortBatch ==
  (Validated /\ raw.type = "list") =>
     /\ ~validated.raised
     /\ validated.offers = OffersOf(SelectSeq(raw.items, WellFormed))
     /\ Len(SelectSeq(validated.errors, IsBadItem)) = Len(SelectSeq(raw.items, Malformed))

C22_Witness ==
  /\ pc = "validated" /\ raw.type = "list" /\ Len(raw.items) = 3
  /\ Malformed(raw.items[1]) /\ WellFormed(raw.items[2]) /\ Malformed(raw.items[3])
  /\ Len(validated.offers) = 1

ErrorEntry(item) == IF Truthy(item.error) THEN item.error ELSE "flight_error"

\* C23 (as claimed): every dict element with an error key contributes its
\* error message to errors, in input order, and no offer.
C23_ErrorItemContributesItsMessage ==
  (Validated /\ raw.type = "list") =>
     LET bad == SelectSeq(raw.items, NotWellFormed) IN
       /\ Len(validated.errors) = Len(bad)
       /\ \A i \in 1..Len(bad) : bad[i].has_error => validated.errors[i] = bad[i].error

\* C23 (amended): every dict element with an error key contributes one entry
\* to errors, in input order, and no offer: its error message when that is
\* non-empty, 'flight_error' otherwise; a list of such elements only yields
\* offers = [] and exactly these entries, and nothing is raised.
C23_ErrorItemContributesMessageOrDefault ==
  (Validated /\ raw.type = "list") =>
     LET bad == SelectSeq(raw.items, NotWellFormed) IN
       /\ ~validated.raised
       /\ Len(validated.errors) = Len(bad)
       /\ Len(validated.offers) = Len(raw.items) - Len(bad)
       /\ \A i \in 1..Len(bad) : bad[i].has_error => validated.errors[i] = ErrorEntry(bad[i])
       /\ (\A i \in 1..Len(raw.items) : raw.items[i].has_error) =>
            /\ validated.offers = <<>>
            /\ validated.errors = [i \in 1..Len(raw.items) |-> ErrorEntry(raw.items[i])]

C23_Witness ==
  /\ pc = "validated" /\ raw.type = "list" /\ Len(raw.items) = 2
  /\ raw.items[1].has_error /\ raw.items[1].error = ""
  /\ raw.items[2].has_error /\ raw.items[2].error = "no route"
  /\ validated.errors = <<"flight_error", "no route">>

\* C24: for an input that is not a list validate_flights returns offers = []
\* and errors = ["not_list"] and raises nothing.
C24_NonListGivesNotList ==
  (Validated /\ raw.type # "list") =>
     /\ validated.offers = <<>>
     /\ validated.errors = <<"not_list">>
     /\ ~validated.raised

C24_Witness == pc = "validated" /\ raw.type = "str" /\ validated.errors = <<"not_list">>

\* C25: extract_min_price returns none for no offers, and otherwise the price
\* of one of the offers that no offer's price is below.
C25_MinPriceIsLeastOfferPrice ==
  pc = "priced" =>
     LET offers == validated.offers IN
       IF offers = <<>> THEN min_price.is_none
       ELSE /\ ~min_price.is_none
            /\ \E i \in 1..Len(offers) : offers[i].price = min_price.price
            /\ \A i \in 1..Len(offers) : min_price.price <= offers[i].price

C25_Witness ==
  /\ pc = "priced" /\ Len(validated.offers) = 3
  /\ validated.offers[1].price > validated.offers[2].price
  /\ min_price.price = validated.offers[2].price

(***************************************************************************)
(* Claims about the tool calls of a planning turn (checked under Spec)     *)
(***************************************************************************)
\* C26 (as claimed): the flights and weather tools are only ever called with
\* the context's committed start date, an ISO date.
C26_DatedToolsGetCommittedIsoDate ==
  \A i \in 1..Len(calls) :
     calls[i].label \in {"flights", "weather"} =>
        /\ IsIso(calls[i].date)
        /\ calls[i].date = context.committed_start_date

\* The Plan Builder order, with the label the node gives the nearby step.
BuilderOrder == <<"flights", "weather", "activities", "map", "budget", "assemble">>

BuilderRank(label) == CHOOSE i \in 1..Len(BuilderOrder) : BuilderOrder[i] = label

\* C27 (as claimed): the tools of a run are called in the Plan Builder order.
C27_ToolsCalledInBuilderOrder ==
  \A i, j \in 1..Len(calls) :
     i < j => BuilderRank(calls[i].label) < BuilderRank(calls[j].label)

(***************************************************************************)
(* Claims about replan across conversations (checked under SpecPeers)      *)
(***************************************************************************)
\* C28 (as claimed): every replan call returns the plan it would return had
\* only its own conversation called replan, and a conversation's first call
\* returns a freshly built plan, which ends in assemble.
C28_ReplanIsolatedPerConversation ==
  \A c \in Conversations :
     /\ peers[c].called => peers[c].ret = peers[c].solo_ret
     /\ peers[c].first =>
          /\ peers[c].ret = build_plan(peers[c].ctx)
          /\ peers[c].ret # <<>>
          /\ peers[c].ret[Len(peers[c].ret)].step = "assemble"

(***************************************************************************)
(* Claims about the budget cache (checked under SpecBudget)                *)
(***************************************************************************)
\* C29 (as claimed): an estimate comes from the cache only for a request
\* equal in destination, nights, travelers, activities and flight cost to
\* the request it was computed for, and no failed estimation is cached.
C29_CachedEstimateMatchesRequest ==
  /\ budget.hit => budget.returned = Estimate(budget.request)
  /\ \A k \in CacheKeys : cache[k].kind \in {"none", "estimate"}

(***************************************************************************)
(* Claims about the requires field (checked under SpecPlan)                *)
(***************************************************************************)
Range(seq) == {seq[i] : i \in 1..Len(seq)}

\* C30 (as claimed): every step of a plan returned by build_plan lists in
\* requires exactly the slots that admitted it under the dependency policy
\* (budget: destination and duration), and each of them is present in ctx.
C30_RequiresNamesGatingSlots ==
  (last.op = "build") =>
    \A i \in 1..Len(last.ret) :
       /\ Range(last.ret[i].requires) = PolicyRequires(last.ret[i].step)
       /\ \A slot \in Range(last.ret[i].requires) : SlotPresent(last.ctx, slot)

====
